---- MODULE Spec2Model ----
(***************************************************************************)
(* Model of the pahole attribute macro (src/src/lib.rs): the catalog       *)
(* `Data`, its construction with the builtin integer layouts, the          *)
(* ingestion of an item tree by `Data::add_item`, and the macro entry      *)
(* point `pahole`.                                                         *)
(*                                                                         *)
(* Rust values are represented as follows.                                 *)
(*   Option<T>      <<>> for None, <<x>> for Some(x)                       *)
(*   Vec<T>         a sequence                                             *)
(*   HashMap<K, V>  a function whose DOMAIN is the set of keys             *)
(*   an enum        a record with a `kind` (syn) or `tag` (parsed) field   *)
(*   a tuple        a sequence                                             *)
(***************************************************************************)
EXTENDS Integers, Sequences, FiniteSets, TLC

VARIABLES
    data,     \* the catalog: [unprocessed_items, processed_items]
    result,   \* what the last add_item call returned (NoResult before any)
    call,     \* the arguments of the last add_item call (NoCall before any)
    ncalls,   \* number of add_item calls made on `data`
    nodes,    \* number of item nodes handed to add_item so far
    input,    \* the macro's input token stream (NoTokens before invocation)
    output    \* the macro's output token stream (NoTokens before it returns)

vars == <<data, result, call, ncalls, nodes, input, output>>

(***************************************************************************)
(* Bounds of the model.                                                    *)
(***************************************************************************)
MaxCalls == 2      \* add_item calls on one catalog
MaxNodes == 4      \* item nodes (modules and leaves) over all calls
MaxFields == 2     \* fields of a struct or union
MaxVariants == 2   \* variants of an enum

(***************************************************************************)
(* parsed::TypePath (lib.rs 23-64): a syn::TypePath, compared structurally.*)
(***************************************************************************)
MkTypePath(leading_colon, segments) ==
    [qself |-> <<>>, leading_colon |-> leading_colon, segments |-> segments]

\* TypePath::new: no qself, no leading colon, no segments.
TypePath_new == MkTypePath(FALSE, <<>>)

\* Mutant of push: the new segment goes in front.
push_front(path, ident) ==
    [path EXCEPT !.segments = <<ident>> \o @]

\* TypePath::push: Punctuated::push appends the segment.
push(path, ident) ==
    [path EXCEPT !.segments = Append(@, ident)]

\* parse_quote!($type) of a builtin: the one-segment relative path.
BuiltinPath(name) == MkTypePath(FALSE, <<name>>)

(***************************************************************************)
(* syn items, as far as add_item reads them.                               *)
(***************************************************************************)
Field(ident, ty) == [ident |-> ident, ty |-> ty]

FieldsNamed(named) == [kind |-> "Named", named |-> named]
FieldsUnnamed(unnamed) == [kind |-> "Unnamed", unnamed |-> unnamed]
FieldsUnit == [kind |-> "Unit"]

Variant(ident, fields, discriminant) ==
    [ident |-> ident, fields |-> fields, discriminant |-> discriminant]

ItemStruct(ident, fields) == [kind |-> "Struct", ident |-> ident, fields |-> fields]
ItemEnum(ident, variants) == [kind |-> "Enum", ident |-> ident, variants |-> variants]
ItemType(ident, ty) == [kind |-> "Type", ident |-> ident, ty |-> ty]
ItemUnion(ident, named) == [kind |-> "Union", ident |-> ident, fields |-> [named |-> named]]
ItemMod(ident, content) == [kind |-> "Mod", ident |-> ident, content |-> content]
ItemFn(ident) == [kind |-> "Fn", ident |-> ident]

(***************************************************************************)
(* mod parsed (lib.rs 7-21).                                               *)
(***************************************************************************)
Struct_Unit == [tag |-> "Unit"]
Struct_Tuple(tys) == [tag |-> "Tuple", val |-> tys]
Struct_Struct(fields) == [tag |-> "Struct", val |-> fields]

Item_Struct(s) == [tag |-> "Struct", val |-> s]
Item_Enum(variants) == [tag |-> "Enum", val |-> variants]
Item_Union(fields) == [tag |-> "Union", val |-> fields]
Item_TypeAlias(ty) == [tag |-> "TypeAlias", val |-> ty]

Reverse(s) == [i \in 1..Len(s) |-> s[Len(s) + 1 - i]]

NamedPair(y) == <<y.ident[1], y.ty>>   \* (y.ident.unwrap(), y.ty)
FieldTy(y) == y.ty

\* into_iter().map(f).collect() into a Vec: element by element, in order.
CollectNamed(s) == [i \in 1..Len(s) |-> NamedPair(s[i])]
CollectTys(s) == [i \in 1..Len(s) |-> FieldTy(s[i])]

\* Mutant of parse_struct_fields: the fields are collected back to front.
parse_struct_fields_reversed(fields) ==
    CASE fields.kind = "Named" -> Struct_Struct(Reverse(CollectNamed(fields.named)))
      [] fields.kind = "Unnamed" -> Struct_Tuple(Reverse(CollectTys(fields.unnamed)))
      [] fields.kind = "Unit" -> Struct_Unit

parse_struct_fields(fields) ==
    CASE fields.kind = "Named" -> Struct_Struct(CollectNamed(fields.named))
      [] fields.kind = "Unnamed" -> Struct_Tuple(CollectTys(fields.unnamed))
      [] fields.kind = "Unit" -> Struct_Unit

(***************************************************************************)
(* Results of add_item: Ok(()) or Err(syn::Error::new_spanned(tokens, msg)).*)
(***************************************************************************)
Ok == [ok |-> TRUE]
Err(tokens, message) == [ok |-> FALSE, span |-> tokens, message |-> message]

\* The two messages (their backquotes written as quotes).
MsgModFile == "pahole does not currently support 'mod's implemented in other files"
MsgItemKind == "pahole can currently only process 'mod's, 'enum's, 'struct's, 'type's, and 'union's."

(***************************************************************************)
(* struct Data (lib.rs 92-110).                                            *)
(***************************************************************************)
EmptyMap == [k \in {} |-> {}]

\* HashMap::insert: the new value replaces any value the key had.
insert(map, k, v) == [x \in DOMAIN map \cup {k} |-> IF x = k THEN v ELSE map[x]]

\* std::alloc::Layout::new::<T>() on a 64-bit host.
Layout(size, align) == [size |-> size, align |-> align]

BuiltinLayouts ==
    << <<"u8", Layout(1, 1)>>, <<"u16", Layout(2, 2)>>, <<"u32", Layout(4, 4)>>,
       <<"u64", Layout(8, 8)>>, <<"u128", Layout(16, 16)>>, <<"usize", Layout(8, 8)>>,
       <<"i8", Layout(1, 1)>>, <<"i16", Layout(2, 2)>>, <<"i32", Layout(4, 4)>>,
       <<"i64", Layout(8, 8)>>, <<"i128", Layout(16, 16)>>, <<"isize", Layout(8, 8)>> >>

RECURSIVE add_builtins_from(_, _)
add_builtins_from(self, i) ==
    IF i > Len(BuiltinLayouts) THEN self
    ELSE add_builtins_from(
            [self EXCEPT !.processed_items =
                insert(@, BuiltinPath(BuiltinLayouts[i][1]), BuiltinLayouts[i][2])],
            i + 1)

\* Data::add_builtins: one insert into processed_items per builtin, in order.
add_builtins(self) == add_builtins_from(self, 1)

\* Data::new
Data_new == add_builtins([unprocessed_items |-> EmptyMap, processed_items |-> EmptyMap])

(***************************************************************************)
(* Data::add_item (lib.rs 112-159).  The operators return the catalog as   *)
(* the call leaves it (self is mutated in place) and the call's result.  *)
(***************************************************************************)
Ret(self, res) == [data |-> self, result |-> res]

EnumVariant(y) == <<y.ident, parse_struct_fields(y.fields)>>
CollectVariants(s) == [i \in 1..Len(s) |-> EnumVariant(s[i])]

\* The first match: the (ident, parsed_item) pair of a type-defining item.
parse_item(item) ==
    CASE item.kind = "Enum" -> <<item.ident, Item_Enum(CollectVariants(item.variants))>>
      [] item.kind = "Struct" -> <<item.ident, Item_Struct(parse_struct_fields(item.fields))>>
      [] item.kind = "Type" -> <<item.ident, Item_TypeAlias(item.ty)>>
      [] item.kind = "Union" -> <<item.ident, Item_Union(CollectNamed(item.fields.named))>>

\* Mutant of register: the definition is also given a layout.
register_with_layout(self, parent_path, ident, parsed_item) ==
    LET path == push(parent_path, ident)
    IN  Ret([self EXCEPT !.unprocessed_items = insert(@, path, parsed_item),
                         !.processed_items = insert(@, path, Layout(0, 1))], Ok)

\* Lines 155-158: the path of the item, the insert, Ok(()).
register(self, parent_path, ident, parsed_item) ==
    LET path == push(parent_path, ident)
    IN  Ret([self EXCEPT !.unprocessed_items = insert(@, path, parsed_item)], Ok)

\* Mutant of unsupported_item: the item is skipped silently.
unsupported_item_skipped(self, item) == Ret(self, Ok)

\* Lines 151-153: any other kind of item.
unsupported_item(self, item) == Ret(self, Err(item, MsgItemKind))

RECURSIVE add_item(_, _, _), add_sub_items(_, _, _)

\* Mutant of add_sub_items: an error of a sub-item does not end the loop.
add_sub_items_continue(self, path, items) ==
    IF items = <<>> THEN Ret(self, Ok)
    ELSE LET r == add_item(self, path, Head(items))
             rest == add_sub_items(r.data, path, Tail(items))
         IN  IF r.result.ok THEN rest ELSE Ret(rest.data, r.result)

\* Lines 119-121: for sub_item in items { self.add_item(path.clone(), sub_item)?; }
add_sub_items(self, path, items) ==
    IF items = <<>> THEN Ret(self, Ok)
    ELSE LET r == add_item(self, path, Head(items))
         IN  IF r.result.ok THEN add_sub_items(r.data, path, Tail(items)) ELSE r

add_item(self, parent_path, item) ==
    CASE item.kind = "Mod" ->
            IF item.content # <<>>
            THEN LET path == push(parent_path, item.ident)
                     r == add_sub_items(self, path, item.content[1])
                 IN  IF r.result.ok THEN Ret(r.data, Ok) ELSE r
            ELSE Ret(self, Err(item, MsgModFile))
      [] item.kind \in {"Enum", "Struct", "Type", "Union"} ->
            LET p == parse_item(item)
            IN  register(self, parent_path, p[1], p[2])
      [] OTHER -> unsupported_item(self, item)

(***************************************************************************)
(* The macro pahole (lib.rs 162-176).  A token stream is represented by    *)
(* what it holds: the item syn parses it to, tokens that are no item, or   *)
(* a compile_error! invocation.                                            *)
(***************************************************************************)
NoTokens == [kind |-> "None"]
TokensOfItem(item) == [kind |-> "Item", item |-> item]
TokensNotAnItem == [kind |-> "NotAnItem"]
CompileError(err) == [kind |-> "CompileError", span |-> err.span, message |-> err.message]

MsgParse == "expected item"

\* parse_macro_input!(item as Item)
parse_Item(tokens) ==
    IF tokens.kind = "Item" THEN [ok |-> TRUE, item |-> tokens.item]
    ELSE Err(tokens, MsgParse)

\* Mutant of pahole_output: the annotated item is emitted after the error.
pahole_output_keeps_item(item_cloned, res) ==
    IF res.ok THEN item_cloned
    ELSE [kind |-> "Both", error |-> CompileError(res), item |-> item_cloned]

\* Lines 170-175: the error's compile_error! on Err, item_cloned on Ok.
pahole_output(item_cloned, res) ==
    IF res.ok THEN item_cloned ELSE CompileError(res)

(***************************************************************************)
(* The inputs.                                                             *)
(***************************************************************************)
ModNames == {"M", "N"}
ParentPaths == {TypePath_new, MkTypePath(TRUE, <<"P">>)}

\* The leaves of the item trees: two definitions named S, an enum named like
\* a builtin, a type alias, a function, and a module whose body is in
\* another file.
TreeLeaves ==
    { ItemStruct("S", FieldsUnit),
      ItemUnion("S", <<Field(<<"x">>, "u8")>>),
      ItemEnum("u8", <<Variant("A", FieldsUnit, <<>>)>>),
      ItemType("T", "u8"),
      ItemFn("f"),
      ItemMod("X", <<>>) }

RECURSIVE ItemsOfSize(_), ForestsOfSize(_)
\* The items of exactly n nodes.
ItemsOfSize(n) ==
    (IF n = 1 THEN TreeLeaves ELSE {})
        \cup {ItemMod(m, <<f>>) : m \in ModNames, f \in ForestsOfSize(n - 1)}

\* The sequences of items of n nodes in all.
ForestsOfSize(n) ==
    IF n = 0 THEN {<<>>}
    ELSE UNION {{<<i>> \o f : i \in ItemsOfSize(j), f \in ForestsOfSize(n - j)} : j \in 1..n}

ItemsBySize == [n \in 1..MaxNodes |-> ItemsOfSize(n)]

FieldNames == {"x", "y"}
FieldTys == {"u8", "u32"}
VariantNames == {"A", "B"}
Discriminants == {<<>>, <<1>>, <<4>>}

Seqs(S, k) == [1..k -> S]

NamedFields == {Field(<<f>>, t) : f \in FieldNames, t \in FieldTys}
UnnamedFields == {Field(<<>>, t) : t \in FieldTys}

\* Payloads of enum variants: A, B(u32), C { n: i128 } of the test, and a
\* payload of two fields.
VariantPayloads ==
    { FieldsUnit, FieldsUnnamed(<<Field(<<>>, "u32")>>),
      FieldsNamed(<<Field(<<"n">>, "i128")>>),
      FieldsNamed(<<Field(<<"x">>, "u8"), Field(<<"y">>, "u32")>>) }

Variants ==
    {Variant(v, p, d) : v \in VariantNames, p \in VariantPayloads, d \in Discriminants}

(***************************************************************************)
(* The state machine.                                                      *)
(***************************************************************************)
NoResult == [ok |-> FALSE, span |-> NoTokens, message |-> "not called"]
NoCall == [parent_path |-> TypePath_new, item |-> [kind |-> "None"]]

RECURSIVE Size(_), SizeAll(_)
Size(item) == IF item.kind = "Mod" /\ item.content # <<>> THEN 1 + SizeAll(item.content[1]) ELSE 1
SizeAll(items) == IF items = <<>> THEN 0 ELSE Size(Head(items)) + SizeAll(Tail(items))

Init ==
    /\ data = Data_new
    /\ result = NoResult
    /\ call = NoCall
    /\ ncalls = 0
    /\ nodes = 0
    /\ input = NoTokens
    /\ output = NoTokens

\* A call data.add_item(parent_path, item) on the catalog.
AddItem(parent_path, item) ==
    /\ ncalls < MaxCalls
    /\ LET r == add_item(data, parent_path, item)
       IN  /\ data' = r.data
           /\ result' = r.result
    /\ call' = [parent_path |-> parent_path, item |-> item]
    /\ ncalls' = ncalls + 1
    /\ nodes' = nodes + Size(item)
    /\ UNCHANGED <<input, output>>

\* One expansion of #[pahole] on the tokens `item`.
Pahole(item) ==
    /\ output = NoTokens
    /\ input' = item
    /\ LET syn_item == parse_Item(item)
       IN  IF ~syn_item.ok
           THEN /\ output' = CompileError(syn_item)
                /\ UNCHANGED <<data, result, call, ncalls, nodes>>
           ELSE LET r == add_item(Data_new, TypePath_new, syn_item.item)
                IN  /\ data' = r.data
                    /\ result' = r.result
                    /\ call' = [parent_path |-> TypePath_new, item |-> syn_item.item]
                    /\ ncalls' = 1
                    /\ nodes' = Size(syn_item.item)
                    /\ output' = pahole_output(item, r.result)

Next ==
    /\ ncalls < MaxCalls
    /\ \E n \in 1..(MaxNodes - nodes) : \E item \in ItemsBySize[n] :
            \E parent_path \in ParentPaths : AddItem(parent_path, item)

Spec == Init /\ [][Next]_vars

\* The macro on an item tree, on a struct, a union, an enum or a type alias
\* with any fields or variants, and on tokens that are no item.
NextMacro ==
    /\ output = NoTokens
    /\ \/ \E n \in 1..MaxNodes : \E item \in ItemsBySize[n] : Pahole(TokensOfItem(item))
       \/ \E k \in 0..MaxFields : \E s \in Seqs(NamedFields, k) :
             Pahole(TokensOfItem(ItemStruct("S", FieldsNamed(s))))
       \/ \E k \in 0..MaxFields : \E s \in Seqs(UnnamedFields, k) :
             Pahole(TokensOfItem(ItemStruct("S", FieldsUnnamed(s))))
       \/ \E k \in 0..MaxFields : \E s \in Seqs(NamedFields, k) :
             Pahole(TokensOfItem(ItemUnion("U", s)))
       \/ \E k \in 0..MaxVariants : \E vs \in Seqs(Variants, k) :
             Pahole(TokensOfItem(ItemEnum("E", vs)))
       \/ \E t \in FieldTys : Pahole(TokensOfItem(ItemType("T", t)))
       \/ Pahole(TokensNotAnItem)

SpecMacro == Init /\ [][NextMacro]_vars

(***************************************************************************)
(* What a call is expected to do, read off the item tree: the leaves of    *)
(* the tree in declaration order, depth first, each with the names of the  *)
(* modules around it, outermost first.                                     *)
(***************************************************************************)
TypeKinds == {"Enum", "Struct", "Type", "Union"}

IsInlineMod(item) == item.kind = "Mod" /\ item.content # <<>>
Fails(item) == ~IsInlineMod(item) /\ item.kind \notin TypeKinds

RECURSIVE Leaves(_, _), LeavesAll(_, _)
Leaves(mods, item) ==
    IF IsInlineMod(item) THEN LeavesAll(Append(mods, item.ident), item.content[1])
    ELSE <<[mods |-> mods, item |-> item]>>
LeavesAll(mods, items) ==
    IF items = <<>> THEN <<>>
    ELSE Leaves(mods, Head(items)) \o LeavesAll(mods, Tail(items))

CallLeaves(c) == Leaves(<<>>, c.item)

\* The index of the first leaf that fails, Len + 1 when none does.
FirstFail(ls) ==
    IF \E i \in 1..Len(ls) : Fails(ls[i].item)
    THEN CHOOSE i \in 1..Len(ls) :
            Fails(ls[i].item) /\ \A j \in 1..(i - 1) : ~Fails(ls[j].item)
    ELSE Len(ls) + 1

QualifiedKey(p, leaf) ==
    [p EXCEPT !.segments = p.segments \o leaf.mods \o <<leaf.item.ident>>]

DefTag(kind) ==
    CASE kind = "Struct" -> "Struct" [] kind = "Enum" -> "Enum"
      [] kind = "Union" -> "Union" [] kind = "Type" -> "TypeAlias"

FailMessage(item) == IF item.kind = "Mod" THEN MsgModFile ELSE MsgItemKind

Keys(d) == DOMAIN d.unprocessed_items
Present(d) == DOMAIN d.unprocessed_items \cup DOMAIN d.processed_items

Called == ncalls' = ncalls + 1

RegistersPresentKey(before, c) ==
    LET ls == CallLeaves(c)
        k == FirstFail(ls)
        key(i) == QualifiedKey(c.parent_path, ls[i])
    IN  \E i \in 1..(k - 1) :
            \/ key(i) \in Present(before)
            \/ \E j \in 1..(i - 1) : key(j) = key(i)

(***************************************************************************)
(* C1.  Registering a definition under a TypeId that is already present,   *)
(* as a builtin or as a type registered earlier (in an earlier call or     *)
(* earlier in the same tree), fails with DuplicateDefinition.              *)
(***************************************************************************)
C1_DuplicateRejected ==
    [][(Called /\ RegistersPresentKey(data, call'))
          => (~result'.ok /\ result'.message = "DuplicateDefinition")]_vars

UnsupportedIdents == {"f"}

RECURSIVE ContainsUnsupported(_)
ContainsUnsupported(item) ==
    IF item.kind = "Mod"
    THEN /\ item.content # <<>>
         /\ \E i \in 1..Len(item.content[1]) : ContainsUnsupported(item.content[1][i])
    ELSE item.kind \notin TypeKinds

(***************************************************************************)
(* C2.  A call whose tree holds, at any depth, an item that is not a       *)
(* module, struct, enum, union or type alias returns an error, and no      *)
(* entry of the catalog is made for such an item (no key ends in the name  *)
(* of one; the names of the unsupported items are not names of types).     *)
(***************************************************************************)
C2_UnsupportedRejected ==
    /\ (call # NoCall /\ ContainsUnsupported(call.item)) => ~result.ok
    /\ \A k \in Keys(data) : k.segments[Len(k.segments)] \notin UnsupportedIdents

\* A function two modules deep was the item that failed, after an item
\* before it had been registered.
C2_Witness ==
    /\ call # NoCall /\ ~result.ok
    /\ result.span.kind = "Fn"
    /\ \E i \in 1..Len(CallLeaves(call)) :
          /\ CallLeaves(call)[i].item = result.span
          /\ Len(CallLeaves(call)[i].mods) >= 2
    /\ Keys(data) # {}

TypeLeaves(c) == {i \in 1..Len(CallLeaves(c)) : CallLeaves(c)[i].item.kind \in TypeKinds}

C3_Holds(before, after, res, c) ==
    LET ls == CallLeaves(c)
        key(i) == QualifiedKey(c.parent_path, ls[i])
        all == {key(i) : i \in TypeLeaves(c)}
    IN  /\ Keys(after) \subseteq Keys(before) \cup all
        /\ res.ok =>
              /\ Keys(after) = Keys(before) \cup all
              /\ \A k \in all : after.unprocessed_items[k].tag \in
                    {DefTag(ls[i].item.kind) : i \in {j \in TypeLeaves(c) : key(j) = k}}
        /\ \A i, j \in TypeLeaves(c) :
              (ls[i].mods # ls[j].mods \/ ls[i].item.ident # ls[j].item.ident)
                  => key(i) # key(j)

(***************************************************************************)
(* C3.  The types of a tree passed with parent path p are registered under *)
(* p, then the names of the enclosing modules from the outermost in, then  *)
(* the type's own name: a call adds no other key (a module gets none), a   *)
(* successful call adds the key of every type of the tree with a           *)
(* definition of that type's kind, and types that differ in module path   *)
(* or name get different keys.                                             *)
(***************************************************************************)
C3_QualifiedKeys == [][Called => C3_Holds(data, data', result', call')]_vars

\* A successful call with a non-empty parent path has registered the same
\* name in two modules, one of them two modules deep.
C3_Witness ==
    /\ call # NoCall /\ result.ok
    /\ call.parent_path.segments # <<>>
    /\ \E i, j \in TypeLeaves(call) :
          LET ls == CallLeaves(call)
          IN  /\ ls[i].item.ident = ls[j].item.ident
              /\ ls[i].mods # ls[j].mods
              /\ Len(ls[i].mods) = 2
              /\ ls[i].mods[1] # ls[i].mods[2]
              /\ QualifiedKey(call.parent_path, ls[i]) \in Keys(data)
              /\ QualifiedKey(call.parent_path, ls[j]) \in Keys(data)

(***************************************************************************)
(* C4.  The layout map is the one Data::new seeded, entry for entry, after *)
(* every sequence of add_item calls, successful or failing.                *)
(***************************************************************************)
C4_LayoutsImmutable == data.processed_items = Data_new.processed_items

\* Two calls were made, the last one failed, and a type named like a
\* builtin is registered.
C4_Witness ==
    /\ ncalls = 2 /\ ~result.ok
    /\ BuiltinPath("u8") \in Keys(data)
    /\ Cardinality(Keys(data)) >= 2

RECURSIVE RegisterAll(_, _, _)
RegisterAll(map, p, ls) ==
    IF ls = <<>> THEN map
    ELSE RegisterAll(insert(map, QualifiedKey(p, Head(ls)), parse_item(Head(ls).item)[2]),
                     p, Tail(ls))

C9_Holds(before, after, res, c) ==
    LET ls == CallLeaves(c)
        k == FirstFail(ls)
        key(i) == QualifiedKey(c.parent_path, ls[i])
    IN  /\ k <= Len(ls)
        /\ res = Err(ls[k].item, FailMessage(ls[k].item))
        /\ after.unprocessed_items =
              RegisterAll(before.unprocessed_items, c.parent_path, SubSeq(ls, 1, k - 1))
        /\ \A i \in 1..(k - 1) : key(i) \in Keys(after)
        /\ \A j \in (k + 1)..Len(ls) :
              key(j) \in Keys(after) =>
                  key(j) \in Keys(before) \cup {key(i) : i \in 1..(k - 1)}

(***************************************************************************)
(* C9.  A call that fails returns the error of the first leaf, in          *)
(* declaration order depth first, that fails, and leaves the catalog as    *)
(* the registrations of the leaves before that one leave it: the key of    *)
(* every type before it is present, no leaf after it has added a key.      *)
(***************************************************************************)
C9_FailFast == [][(Called /\ ~result'.ok) => C9_Holds(data, data', result', call')]_vars

\* A failed call: a type before the failing item is registered, a type
\* after it is not.
C9_Witness ==
    /\ call # NoCall /\ ~result.ok
    /\ LET ls == CallLeaves(call)
           k == FirstFail(ls)
       IN  /\ \E i \in 1..(k - 1) : QualifiedKey(call.parent_path, ls[i]) \in Keys(data)
           /\ \E j \in (k + 1)..Len(ls) :
                 /\ ls[j].item.kind \in TypeKinds
                 /\ QualifiedKey(call.parent_path, ls[j]) \notin Keys(data)

MixedDiscriminants(vs) ==
    \E i, j \in 1..Len(vs) : vs[i].discriminant = <<>> /\ vs[j].discriminant # <<>>

RootKey(item) == QualifiedKey(TypePath_new, [mods |-> <<>>, item |-> item])

(***************************************************************************)
(* C5.  An enum of which some variants have an explicit discriminant and   *)
(* others have none is rejected with InconsistentDiscriminants; any other  *)
(* enum is accepted, and its registered definition holds the explicit      *)
(* discriminant of each variant that has one.                              *)
(***************************************************************************)
C5_DiscriminantsChecked ==
    (input.kind = "Item" /\ input.item.kind = "Enum") =>
        LET vs == input.item.variants
        IN  IF MixedDiscriminants(vs)
            THEN ~result.ok /\ result.message = "InconsistentDiscriminants"
            ELSE /\ result.ok
                 /\ RootKey(input.item) \in Keys(data)
                 /\ LET def == data.unprocessed_items[RootKey(input.item)].val
                    IN  \A i \in 1..Len(vs) :
                           vs[i].discriminant # <<>> =>
                               /\ Len(def[i]) >= 3
                               /\ def[i][3] = vs[i].discriminant

FieldsMatch(s, fields) ==
    CASE fields.kind = "Named" ->
            /\ s.tag = "Struct"
            /\ Len(s.val) = Len(fields.named)
            /\ \A i \in 1..Len(fields.named) :
                  /\ s.val[i][1] = fields.named[i].ident[1]
                  /\ s.val[i][2] = fields.named[i].ty
      [] fields.kind = "Unnamed" ->
            /\ s.tag = "Tuple"
            /\ Len(s.val) = Len(fields.unnamed)
            /\ \A i \in 1..Len(fields.unnamed) : s.val[i] = fields.unnamed[i].ty
      [] fields.kind = "Unit" -> s = [tag |-> "Unit"]

DefinitionMatches(def, item) ==
    CASE item.kind = "Struct" -> def.tag = "Struct" /\ FieldsMatch(def.val, item.fields)
      [] item.kind = "Enum" ->
            /\ def.tag = "Enum"
            /\ Len(def.val) = Len(item.variants)
            /\ \A i \in 1..Len(item.variants) :
                  /\ def.val[i][1] = item.variants[i].ident
                  /\ FieldsMatch(def.val[i][2], item.variants[i].fields)
      [] item.kind = "Union" ->
            /\ def.tag = "Union"
            /\ Len(def.val) = Len(item.fields.named)
            /\ \A i \in 1..Len(item.fields.named) :
                  /\ def.val[i][1] = item.fields.named[i].ident[1]
                  /\ def.val[i][2] = item.fields.named[i].ty
      [] OTHER -> TRUE

(***************************************************************************)
(* C6.  The registered definition of a struct, tuple struct, enum or union *)
(* lists the fields, and the variants, in the order and number of the      *)
(* declaration; a named field keeps its name, a unit struct or variant has *)
(* no fields.                                                              *)
(***************************************************************************)
C6_DeclarationOrder ==
    (input.kind = "Item" /\ input.item.kind \in {"Struct", "Enum", "Union"}) =>
        /\ result.ok
        /\ RootKey(input.item) \in Keys(data)
        /\ DefinitionMatches(data.unprocessed_items[RootKey(input.item)], input.item)

\* An enum of two variants, the second with a payload of two named fields
\* of different names and types, is registered.
C6_Witness ==
    /\ input.kind = "Item" /\ input.item.kind = "Enum" /\ result.ok
    /\ Len(input.item.variants) = 2
    /\ input.item.variants[1].ident # input.item.variants[2].ident
    /\ input.item.variants[1].fields.kind = "Unnamed"
    /\ input.item.variants[2].fields.kind = "Named"
    /\ Len(input.item.variants[2].fields.named) = 2
    /\ RootKey(input.item) \in Keys(data)

(***************************************************************************)
(* C10.  When add_item succeeds the macro's output is its input token      *)
(* stream; when add_item fails the output is the error's compile_error!    *)
(* alone, without the annotated item.                                      *)
(***************************************************************************)
C10_Transparent ==
    (output # NoTokens /\ input.kind = "Item") =>
        IF result.ok THEN output = input
        ELSE output = [kind |-> "CompileError", span |-> result.span,
                       message |-> result.message]

\* The macro failed on a module after registering one of its types.
C10_Witness ==
    /\ input.kind = "Item" /\ input.item.kind = "Mod"
    /\ ~result.ok
    /\ output.kind = "CompileError"
    /\ Keys(data) # {}

====
